---- MODULE Spec2Model ----
(***************************************************************************)
(* QUIP packet codec of the Q-Pace payload computer                        *)
(* (src/Scripts/qpaceQUIP.py): the Packet frame builder, the majority-vote *)
(* decoder (resolveExpansion), the Encoder (file -> packet units) and the  *)
(* Decoder (packet units -> scaffold -> final file).                       *)
(*                                                                         *)
(* Bytes are integers 0..255, byte strings are sequences of bytes, Python  *)
(* str values are sequences of Unicode code points.  A file that does not  *)
(* exist is NoFile.                                                        *)
(***************************************************************************)
EXTENDS Integers, Sequences, FiniteSets, TLC

VARIABLES
    \* ---- Packet class attributes (shared by every Packet instance)
    last_id,        \* Packet.last_id
    overflow,       \* Packet.overflow: 0, or a non-integer float once a pid > max_id was seen
    \* ---- one Packet(...) call and its build(), for the packet-level specification
    pkt,            \* outcome of the last constructor call
    \* ---- one resolveExpansion call, for the majority-vote specification
    vote,           \* the run given to resolveExpansion and what it returned
    \* ---- the file system
    source,         \* the file to encode (path_for_encode)
    unit,           \* the packet store: pid -> contents of "<pid>.qp"
    lost,           \* units the link has not delivered to the Decoder's store: pid -> frame
    initUnit,       \* contents of "init.qp"
    scaff,          \* contents of "<file_name>.scaff"
    final,          \* contents of "<file_name>"
    \* ---- the Encoder object and its position in run()/encode()
    enc,
    \* ---- the Decoder object and its position in run()/bulkDecode()/asyncDecode()
    dec,
    \* ---- qpaceInterpreter.run: the receive loop and its position
    interp,
    \* ---- qpaceWTCHandler.run: the supervisor, its threads and the shutdown flag
    sup

vars == <<last_id, overflow, pkt, vote, source, unit, lost, initUnit, scaff, final, enc, dec,
          interp, sup>>

\* the variables of the codec (qpaceQUIP.py)
codecVars == <<last_id, overflow, pkt, vote, source, unit, lost, initUnit, scaff, final, enc, dec>>

\* a file that does not exist / Python's None where a byte string is expected
NoFile == <<-1>>
None == <<-1>>

-----------------------------------------------------------------------------
(* Program constants (class Packet)                                        *)

sync == 65535
start == 43981
end == 56506
max_size == 256
data_size == 77

\* Python integers are unbounded and pids reach 2^32: a pid is kept as the pair
\* <<n div 2^16, n mod 2^16>>
Wide(n) == <<n \div 65536, n % 65536>>
WInt(w) == w[1] * 65536 + w[2]
WLess(a, b) == a[1] < b[1] \/ (a[1] = b[1] /\ a[2] < b[2])
WSucc(w) == IF w[2] = 65535 THEN <<w[1] + 1, 0>> ELSE <<w[1], w[2] + 1>>
WPred(w) == IF w[2] = 0 THEN <<w[1] - 1, 65535>> ELSE <<w[1], w[2] - 1>>
WSub(a, b) == IF a[2] >= b[2] THEN <<a[1] - b[1], a[2] - b[2]>>
              ELSE <<a[1] - b[1] - 1, a[2] + 65536 - b[2]>>
\* a % m for a >= 0
RECURSIVE WMod(_, _)
WMod(a, m) == IF WLess(a, m) THEN a ELSE WMod(WSub(a, m), m)

\* 0xFFFFFFFF
max_id == <<65535, 65535>>

-----------------------------------------------------------------------------
(* Bounds of the model                                                     *)

\* longest payload enumerated byte by byte in the packet-level specification
MaxPayload == 2
\* longest original run (k) enumerated for resolveExpansion
MaxRun == 2
\* largest number of data units a source file is split into
MaxUnits == 3

-----------------------------------------------------------------------------
(* Byte-string helpers                                                     *)

Min(a, b) == IF a < b THEN a ELSE b
Max(a, b) == IF a > b THEN a ELSE b

\* int.to_bytes(n, byteorder='big')
RECURSIVE to_bytes(_, _)
to_bytes(x, n) == IF n = 0 THEN <<>> ELSE to_bytes(x \div 256, n - 1) \o <<x % 256>>

\* struct.unpack('>L', b)[0]
RECURSIVE unpack(_)
unpack(b) == IF b = <<>> THEN 0 ELSE unpack(SubSeq(b, 1, Len(b) - 1)) * 256 + b[Len(b)]

\* b * n  (sequence repetition)
Repeat(b, n) == [i \in 1..(Len(b) * n) |-> b[((i - 1) % Len(b)) + 1]]

\* Python slice b[lo:hi] for lo >= 0; a negative hi counts from the end
Slice(b, lo, hi) ==
    LET h == IF hi < 0 THEN Max(hi + Len(b), 0) ELSE Min(hi, Len(b))
    IN  IF lo >= h THEN <<>> ELSE SubSeq(b, lo + 1, h)

\* bytes.find(sub) for a two-byte sub: 0-based index of the first occurrence, or -1
find(b, w) ==
    LET Hit(i) == b[i] = w[1] /\ b[i + 1] = w[2]
    IN  IF \E i \in 1..(Len(b) - 1) : Hit(i)
        THEN (CHOOSE i \in 1..(Len(b) - 1) : Hit(i) /\ \A j \in 1..(i - 1) : ~Hit(j)) - 1
        ELSE -1

endWord == to_bytes(end, 2)

-----------------------------------------------------------------------------
(* class Packet                                                            *)

\* Packet.overflow is the int 0 until a pid > max_id is constructed; then it is
\* the float (max_id / pid) % 2, which lies strictly between 0 and 1.
IntZero == [type |-> "int", num |-> 0, den |-> <<0, 1>>]
IntOne == [type |-> "int", num |-> 1, den |-> <<0, 1>>]
OverflowValue(pid) == [type |-> "float", num |-> max_id, den |-> pid]

NoPacket == [data |-> None, pid |-> Wide(-1), op_code |-> -1]

\* line 71: op_code == 0x0 or op_code == 0x7 and (last_id + 1) == pid
\* ('and' binds tighter than 'or')
PidAccepted(op_code, pid, last) == op_code = 0 \/ (op_code = 7 /\ WSucc(last) = pid)

\* a size check against the frame size instead of the payload size
SizeOkFrame(data) == Len(data) <= max_size

\* Packet.__init__, line 69: data_in_bytes <= Packet.data_size
SizeOk(data) == Len(data) <= data_size

\* Packet.__init__(data, pid, op_code=...) for data given as bytes.
\* Returns the exception raised (or "ok"), the instance and the class attributes.
PacketInit(data, pid, op_code, last, ovf) ==
    LET raise(msg) == [status |-> "ValueError", msg |-> msg, packet |-> NoPacket,
                       last_id |-> last, overflow |-> ovf]
    IN  IF WLess(pid, Wide(0)) THEN raise("pid is invalid")
        ELSE IF SizeOk(data)
        THEN IF PidAccepted(op_code, pid, last)
             THEN [status |-> "ok", msg |-> "none",
                   packet |-> [data |-> data, pid |-> WMod(pid, max_id), op_code |-> op_code],
                   last_id |-> pid,
                   overflow |-> IF WLess(max_id, pid) THEN OverflowValue(pid) ELSE ovf]
             ELSE IF op_code > 0 /\ op_code < 7
             THEN [status |-> "ok", msg |-> "none",
                   packet |-> [data |-> data, pid |-> Wide(0), op_code |-> op_code],
                   last_id |-> last,
                   overflow |-> IF WLess(max_id, pid) THEN OverflowValue(pid) ELSE ovf]
             ELSE raise("pid out of order")
        ELSE raise("size is too large")

\* (Packet.overflow << 7) | (self.op_code << 4), one byte; a float overflow
\* makes '<<' raise TypeError (see build)
FlagsByte(ovf, op_code) == <<ovf.num * 128 + op_code * 16>>

buildHeader(p, ovf) ==
    to_bytes(sync, 2) \o to_bytes(start, 2)
        \o Repeat(to_bytes(p.pid[1], 2) \o to_bytes(p.pid[2], 2) \o FlagsByte(ovf, p.op_code), 3)

buildData(p) == Repeat(p.data, 3)

buildFooter == to_bytes(end, 2) \o to_bytes(sync, 2)

\* a build() that does not pad
PadNone(packet) == packet

\* the while loop of build(): append 0xFF until the frame has max_size bytes
Pad(packet) ==
    packet \o [i \in 1..Max(max_size - Len(packet), 0) |-> 255]

BuildRaises(ovf) == ovf.type # "int"

\* Packet.build() when the header can be built
build(p, ovf) == Pad(buildHeader(p, ovf) \o buildData(p) \o buildFooter)

-----------------------------------------------------------------------------
(* Decoder.resolveExpansion / Decoder.decipherHeader                       *)

\* a vote that trusts the first copy
MajorityFirstCopy(a, b, c, t) == a

\* max(set(vote), key=vote.count): the value that occurs most often; when the
\* three differ the result is whichever the set yields first, here copy t.
Majority(a, b, c, t) ==
    IF a = b \/ a = c THEN a
    ELSE IF b = c THEN b
    ELSE <<a, b, c>>[t]

resolveExpansion(information, t) ==
    LET size == Len(information) \div 3
    IN  [i \in 1..size |->
            Majority(information[i], information[i + size], information[i + size * 2], t)]

decipherHeader(header) ==
    [pid |-> <<unpack(SubSeq(header, 1, 2)), unpack(SubSeq(header, 3, 4))>>,
     overflow |-> (header[5] \div 128) % 2,
     op_code |-> (header[5] \div 16) % 8]

\* the payload field of a frame, as bulkDecode/asyncDecode/readInit cut it out
PayloadOf(frame) == resolveExpansion(Slice(frame, 19, find(frame, endWord)), 1)

\* the header of a frame (frame[4:19])
HeaderOf(frame) == decipherHeader(resolveExpansion(Slice(frame, 4, 19), 1))

-----------------------------------------------------------------------------
(* Python text: bytes.decode('utf-8'), str.encode('utf-8'), str(int),      *)
(* int(str), str.split(' '), bytearray.fromhex(str)                        *)

IsCont(x) == x >= 128 /\ x <= 191

\* number of bytes of the well-formed UTF-8 character starting at b[i], or 0
\* when the bytes at i are not one (the strict decoder then raises
\* UnicodeDecodeError)
CharLenAt(b, i) ==
    LET n  == Len(b)
        b0 == b[i]
        c1 == IF i + 1 <= n THEN b[i + 1] ELSE -1
        c2 == IF i + 2 <= n THEN b[i + 2] ELSE -1
        c3 == IF i + 3 <= n THEN b[i + 3] ELSE -1
    IN  IF b0 < 128 THEN 1
        ELSE IF b0 >= 194 /\ b0 <= 223 THEN (IF IsCont(c1) THEN 2 ELSE 0)
        ELSE IF b0 = 224 THEN (IF c1 >= 160 /\ c1 <= 191 /\ IsCont(c2) THEN 3 ELSE 0)
        ELSE IF b0 = 237 THEN (IF c1 >= 128 /\ c1 <= 159 /\ IsCont(c2) THEN 3 ELSE 0)
        ELSE IF b0 >= 225 /\ b0 <= 239 THEN (IF IsCont(c1) /\ IsCont(c2) THEN 3 ELSE 0)
        ELSE IF b0 = 240
             THEN (IF c1 >= 144 /\ c1 <= 191 /\ IsCont(c2) /\ IsCont(c3) THEN 4 ELSE 0)
        ELSE IF b0 >= 241 /\ b0 <= 243
             THEN (IF IsCont(c1) /\ IsCont(c2) /\ IsCont(c3) THEN 4 ELSE 0)
        ELSE IF b0 = 244
             THEN (IF c1 >= 128 /\ c1 <= 143 /\ IsCont(c2) /\ IsCont(c3) THEN 4 ELSE 0)
        ELSE 0

CodePointAt(b, i, n) ==
    IF n = 1 THEN b[i]
    ELSE IF n = 2 THEN (b[i] % 32) * 64 + (b[i + 1] % 64)
    ELSE IF n = 3 THEN (b[i] % 16) * 4096 + (b[i + 1] % 64) * 64 + (b[i + 2] % 64)
    ELSE (b[i] % 8) * 262144 + (b[i + 1] % 64) * 4096 + (b[i + 2] % 64) * 64 + (b[i + 3] % 64)

\* the decoder's pass over bytes lo..hi when the next character starts at byte
\* at (the halves are decoded one after the other, which keeps the recursion
\* shallow): the characters found, where the next one starts, and whether
\* every character was well formed
RECURSIVE Utf8Chars(_, _, _, _)
Utf8Chars(b, lo, hi, at) ==
    IF lo > hi THEN [s |-> <<>>, at |-> at, ok |-> TRUE]
    ELSE IF lo = hi
    THEN IF at # lo THEN [s |-> <<>>, at |-> at, ok |-> TRUE]
         ELSE LET n == CharLenAt(b, lo)
              IN  IF n = 0 THEN [s |-> <<>>, at |-> at, ok |-> FALSE]
                  ELSE [s |-> <<CodePointAt(b, lo, n)>>, at |-> lo + n, ok |-> TRUE]
    ELSE LET mid   == (lo + hi) \div 2
             left  == Utf8Chars(b, lo, mid, at)
             right == Utf8Chars(b, mid + 1, hi, left.at)
         IN  IF ~left.ok THEN left
             ELSE [s |-> left.s \o right.s, at |-> right.at, ok |-> right.ok]

\* b.decode('utf-8'): ok = FALSE stands for UnicodeDecodeError
decode(b) ==
    LET r == Utf8Chars(b, 1, Len(b), 1)
    IN  [ok |-> r.ok, s |-> r.s]

EncodeChar(c) ==
    IF c < 128 THEN <<c>>
    ELSE IF c < 2048 THEN <<192 + (c \div 64), 128 + (c % 64)>>
    ELSE IF c < 65536
         THEN <<224 + (c \div 4096), 128 + ((c \div 64) % 64), 128 + (c % 64)>>
    ELSE <<240 + (c \div 262144), 128 + ((c \div 4096) % 64),
           128 + ((c \div 64) % 64), 128 + (c % 64)>>

\* bytearray(s, 'utf-8') / text-mode write of s
RECURSIVE encode(_)
encode(s) ==
    IF s = <<>> THEN <<>>
    ELSE IF Len(s) = 1 THEN EncodeChar(s[1])
    ELSE LET mid == Len(s) \div 2
         IN  encode(SubSeq(s, 1, mid)) \o encode(SubSeq(s, mid + 1, Len(s)))

\* str(n) for n >= 0, as character codes
RECURSIVE str(_)
str(n) == IF n < 10 THEN <<48 + n>> ELSE str(n \div 10) \o <<48 + (n % 10)>>

IsDigits(s) == s # <<>> /\ \A i \in 1..Len(s) : s[i] >= 48 /\ s[i] <= 57

\* int(s) for a string of decimal digits (anything else: ValueError, see IsDigits)
RECURSIVE int(_)
int(s) == IF s = <<>> THEN 0 ELSE int(SubSeq(s, 1, Len(s) - 1)) * 10 + (s[Len(s)] - 48)

\* s.split(' ')
RECURSIVE split(_)
split(s) ==
    LET sp == {i \in 1..Len(s) : s[i] = 32}
    IN  IF sp = {} THEN <<s>>
        ELSE LET i == CHOOSE x \in sp : \A y \in sp : x <= y
             IN  <<SubSeq(s, 1, i - 1)>> \o split(SubSeq(s, i + 1, Len(s)))

\* " ".join(list)
RECURSIVE join(_)
join(l) == IF l = <<>> THEN <<>>
           ELSE IF Len(l) = 1 THEN l[1]
           ELSE l[1] \o <<32>> \o join(Tail(l))

IsHexDigit(c) == (c >= 48 /\ c <= 57) \/ (c >= 65 /\ c <= 70) \/ (c >= 97 /\ c <= 102)
HexVal(c) == IF c <= 57 THEN c - 48 ELSE IF c <= 70 THEN c - 55 ELSE c - 87

\* bytearray.fromhex(s) from character i on: pairs of hex digits, spaces between
\* pairs skipped; ends with -1 where it raises ValueError
RECURSIVE HexFrom(_, _)
HexFrom(s, i) ==
    IF i > Len(s) THEN <<>>
    ELSE IF s[i] = 32 THEN HexFrom(s, i + 1)
    ELSE IF i + 1 <= Len(s) /\ IsHexDigit(s[i]) /\ IsHexDigit(s[i + 1])
         THEN <<HexVal(s[i]) * 16 + HexVal(s[i + 1])>> \o HexFrom(s, i + 2)
    ELSE <<-1>>

\* Packet.__init__, lines 54-58: a str is read as hex when it is valid hex,
\* otherwise character by character
StrToBytes(s) ==
    LET h == HexFrom(s, 1)
    IN  IF h = <<>> \/ h[Len(h)] # -1 THEN h ELSE s

-----------------------------------------------------------------------------
(* Packet-level specification: any sequence of Packet(...) calls, each     *)
(* followed by build() when the constructor returned.  pkt describes the   *)
(* call in progress; it is dropped before the next call, the class         *)
(* attributes last_id and overflow stay.                                   *)

\* byte values the enumerated payloads are made of: 'A' and the two bytes of
\* the end word
PayloadBytes == {65, 186, 220}

RECURSIVE SeqsUpTo(_, _)
SeqsUpTo(S, n) ==
    IF n = 0 THEN {<<>>}
    ELSE LET shorter == SeqsUpTo(S, n - 1)
         IN  shorter \cup {s \o <<x>> : s \in {r \in shorter : Len(r) = n - 1}, x \in S}

Fill(b, n) == [i \in 1..n |-> b]

\* payloads given to the constructor: every short byte string, a full one
\* and one that is a byte too long
Payloads == SeqsUpTo(PayloadBytes, MaxPayload)
                \cup {Fill(65, data_size), Fill(65, data_size + 1)}

\* pid arguments: negative, small, the pid whose bytes are the end word, and
\* the pids around max_id
PidArgs == {Wide(-1), Wide(0), Wide(1), Wide(5), Wide(end - 1), Wide(end),
            WPred(max_id), max_id, WSucc(max_id)}

OpCodes == 0..7

NoCall == [status |-> "none", msg |-> "none", data |-> <<>>, pidArg |-> Wide(-1), op_code |-> 0,
           packet |-> NoPacket, prevLast |-> Wide(-1), prevOverflow |-> IntZero,
           built |-> "none", frame |-> <<>>]

InitPacketClass == last_id = Wide(-1) /\ overflow = IntZero
InitPacket == pkt = NoCall
InitVote == vote = [run |-> <<>>, out |-> <<>>, called |-> FALSE]
InitFiles ==
    /\ source = NoFile
    /\ unit = [p \in 0..(MaxUnits - 1) |-> NoFile]
    /\ lost = [p \in 0..(MaxUnits - 1) |-> NoFile]
    /\ initUnit = NoFile
    /\ scaff = NoFile
    /\ final = NoFile
\* no interpreter loop and no supervisor are running
NoWorker ==
    [pc |-> "none", thread |-> FALSE, buf |-> 0, attempt |-> 0,
     cause |-> "none", exc |-> "none",
     \* bookkeeping for the properties: the inputs of the last read, the
     \* consecutive reads that met a FIFO data error with no data available,
     \* and whether the iteration under way began with the shutdown flag set
     last |-> [status |-> 0, irq |-> "none"], errPolls |-> 0, began |-> FALSE]
NoSupervisor == [pc |-> "none", shutdown |-> FALSE, todoParserAlive |-> FALSE]
InitWTCIdle == interp = NoWorker /\ sup = NoSupervisor

InitCoders == enc = [pc |-> "none"] /\ dec = [pc |-> "none"] /\ InitWTCIdle

\* p = Packet(data, pid, op_code=op_code); p.build()
PacketCall(data, pid, op_code) ==
    LET r == PacketInit(data, pid, op_code, last_id, overflow)
    IN  /\ pkt.status = "none"
        /\ last_id' = r.last_id
        /\ overflow' = r.overflow
        /\ pkt' = [status |-> r.status, msg |-> r.msg, data |-> data, pidArg |-> pid,
                   op_code |-> op_code, packet |-> r.packet,
                   prevLast |-> last_id, prevOverflow |-> overflow,
                   built |-> IF r.status # "ok" THEN "none"
                             ELSE IF BuildRaises(r.overflow) THEN "TypeError"
                             ELSE "ok",
                   frame |-> IF r.status = "ok" /\ ~BuildRaises(r.overflow)
                             THEN build(r.packet, r.overflow) ELSE <<>>]
        /\ UNCHANGED <<vote, source, unit, lost, initUnit, scaff, final, enc, dec, interp, sup>>

\* the caller is done with the instance
PacketDrop ==
    /\ pkt.status # "none"
    /\ pkt' = NoCall
    /\ UNCHANGED <<last_id, overflow, vote, source, unit, lost, initUnit, scaff, final, enc, dec, interp, sup>>

NextPacket ==
    \/ \E data \in Payloads, pid \in PidArgs, op_code \in OpCodes :
           PacketCall(data, pid, op_code)
    \/ PacketDrop

InitP == InitPacketClass /\ InitPacket /\ InitVote /\ InitFiles /\ InitCoders

SpecPacket == InitP /\ [][NextPacket]_vars

\* C1: for every payload of 1..77 bytes, every sequential pid and opCode 0x0 or
\* 0x7, deserializing the frame build() returns the way the Decoder does
\* gives back exactly (payload, pid, opCode).
C1_RoundTrip ==
    (/\ pkt.status = "ok"
     /\ pkt.op_code \in {0, 7}
     /\ Len(pkt.data) \in 1..data_size
     /\ pkt.pidArg = WSucc(pkt.prevLast)
     /\ WLess(pkt.pidArg, max_id))
    => /\ pkt.built = "ok"
       /\ PayloadOf(pkt.frame) = pkt.data
       /\ HeaderOf(pkt.frame).pid = pkt.pidArg
       /\ HeaderOf(pkt.frame).op_code = pkt.op_code

\* C4: for opCode 0x0 and 0x7 a constructor call with pid # last_id + 1 raises
\* ValueError and leaves Packet.last_id unchanged, so the accepted data pids
\* are consecutive.
C4_OrderingError ==
    (/\ pkt.status # "none"
     /\ pkt.op_code \in {0, 7}
     /\ pkt.pidArg # WSucc(pkt.prevLast))
    => /\ pkt.status = "ValueError"
       /\ last_id = pkt.prevLast

\* C18: for every op code and every pid >= 0 a payload of more than 77 bytes
\* makes the constructor raise the size ValueError and leaves Packet.last_id
\* and Packet.overflow as they were; a payload of at most 77 bytes never
\* raises the size error.
C18_SizeError ==
    (pkt.status # "none" /\ ~WLess(pkt.pidArg, Wide(0)))
    => IF Len(pkt.data) > data_size
       THEN /\ pkt.status = "ValueError"
            /\ pkt.msg = "size is too large"
            /\ last_id = pkt.prevLast
            /\ overflow = pkt.prevOverflow
       ELSE pkt.msg # "size is too large"

C18_Witness ==
    /\ pkt.status = "ValueError"
    /\ Len(pkt.data) = data_size + 1
    /\ pkt.op_code = 0
    /\ pkt.pidArg = WSucc(pkt.prevLast)
    /\ pkt.prevLast # Wide(-1)

\* Frame layout.  build() is a function of the instance and of the class
\* attribute Packet.overflow; SpecLayout applies it to every packet the
\* constructor returns with the overflow flag drawn from 0 and 1.
InitL ==
    /\ last_id = Wide(-1) /\ overflow \in {IntZero, IntOne}
    /\ InitPacket /\ InitVote /\ InitFiles /\ InitCoders

SpecLayout == InitL /\ [][NextPacket]_vars

\* the four bytes of a pid, most significant first
PidBytes(w) == <<w[1] \div 256, w[1] % 256, w[2] \div 256, w[2] % 256>>

\* C17: for every packet the constructor returns (payload of 0..77 bytes, op
\* code 0..7, overflow 0 or 1) build() returns exactly 256 bytes: FF FF, AB CD,
\* three copies of (pid, flags byte), three copies of the payload, DC BA FF FF,
\* then only FF.
C17_FrameLayout ==
    (pkt.status = "ok" /\ overflow.type = "int")
    => LET f == pkt.frame
           L == Len(pkt.data)
       IN  /\ pkt.built = "ok"
           /\ Len(f) = 256
           /\ f[1] = 255 /\ f[2] = 255 /\ f[3] = 171 /\ f[4] = 205
           /\ \A c \in 0..2 :
                 /\ \A j \in 1..4 : f[4 + 5 * c + j] = PidBytes(pkt.packet.pid)[j]
                 /\ f[4 + 5 * c + 5] = overflow.num * 128 + pkt.op_code * 16
           /\ \A c \in 0..2 : \A j \in 1..L : f[19 + c * L + j] = pkt.data[j]
           /\ f[19 + 3 * L + 1] = 220 /\ f[19 + 3 * L + 2] = 186
           /\ f[19 + 3 * L + 3] = 255 /\ f[19 + 3 * L + 4] = 255
           /\ \A x \in (19 + 3 * L + 5)..256 : f[x] = 255

C17_Witness ==
    /\ pkt.status = "ok" /\ pkt.built = "ok"
    /\ overflow = IntOne
    /\ Len(pkt.data) = data_size
    /\ pkt.op_code = 7
    /\ Len(pkt.frame) = max_size

-----------------------------------------------------------------------------
(* Majority-vote specification: resolveExpansion applied to every run of   *)
(* 3k bytes, k <= MaxRun, over VoteBytes (so every pattern of agreement    *)
(* and disagreement between the three copies occurs).                      *)

VoteBytes == {0, 65, 255}

RunsOf(k) == {r \in SeqsUpTo(VoteBytes, 3 * k) : Len(r) = 3 * k}

InitV ==
    /\ InitPacketClass /\ InitPacket /\ InitFiles /\ InitCoders
    /\ \E k \in 0..MaxRun : \E r \in RunsOf(k) :
           vote = [run |-> r, out |-> <<>>, called |-> FALSE]

\* majority_info = Decoder.resolveExpansion(run)
VoteCall(t) ==
    /\ ~vote.called
    /\ vote' = [vote EXCEPT !.out = resolveExpansion(vote.run, t), !.called = TRUE]
    /\ UNCHANGED <<last_id, overflow, pkt, source, unit, lost, initUnit, scaff, final, enc, dec, interp, sup>>

NextVote == \E t \in 1..3 : VoteCall(t)

SpecVote == InitV /\ [][NextVote]_vars

\* the three candidate bytes of output position i of a 3k-byte run
Copies(run, i) == LET k == Len(run) \div 3 IN <<run[i], run[i + k], run[i + 2 * k]>>

AtLeastTwo(c, v) == Cardinality({j \in 1..3 : c[j] = v}) >= 2

\* C6: for a 3k-byte run in which at every position at least two of the three
\* copies carry the original byte, resolveExpansion returns exactly the
\* original k bytes (position by position: the byte two copies agree on).
C6_MajorityVote ==
    vote.called =>
        /\ Len(vote.out) = Len(vote.run) \div 3
        /\ \A i \in 1..(Len(vote.run) \div 3) : \A v \in VoteBytes :
               AtLeastTwo(Copies(vote.run, i), v) => vote.out[i] = v

\* a run of k = MaxRun bytes with one copy corrupted at one position and
\* intact at another, resolved to the majority
C6_Witness ==
    /\ vote.called
    /\ Len(vote.out) = MaxRun
    /\ \E i \in 1..MaxRun :
          LET c == Copies(vote.run, i)
          IN  c[1] # c[2] /\ c[2] = c[3] /\ vote.out[i] = c[2]
    /\ \E i \in 1..MaxRun :
          LET c == Copies(vote.run, i)
          IN  c[1] = c[2] /\ c[2] = c[3] /\ vote.out[i] = c[1]

-----------------------------------------------------------------------------
(* Codec specification: one Encoder.run over a source file (present or     *)
(* missing, destructive mode on or off, a unit write or the init.qp write  *)
(* possibly failing), loss of units on the link, one Decoder.run (init,    *)
(* prepareFileLocation, bulkDecode, the scaffold open possibly failing),   *)
(* late arrival of lost units and one asyncDecode call, on the decoder     *)
(* that ran the bulk pass or on a new Decoder object.                      *)

\* source files: up to MaxUnits blocks of data_size bytes, the last one of a
\* length in TailLens.  Block i carries the letter 'A' + i; at most one block
\* of a file is not plain ASCII text: it holds two-byte UTF-8 characters,
\* or the bytes of the end word, or bytes that are not UTF-8 at all
BlockKinds == {"ascii", "utf8", "endword", "binary"}
TailLens == {1, 46, data_size}

\* byte j of block i
BlockByte(kind, i, j) ==
    IF kind = "ascii" THEN 65 + i                      \* AAAA...
    ELSE IF kind = "binary" THEN 255                   \* FF FF FF ...
    ELSE IF j = 1 THEN 65 + i
    ELSE IF kind = "utf8"
         THEN (IF j % 2 = 0 THEN 195 ELSE 191)         \* A C3 BF C3 BF ...
         ELSE (IF j % 2 = 0 THEN 220 ELSE 186)         \* A DC BA DC BA ...

\* the file of n blocks whose block k is of the given kind
SourceOf(n, tail, k, kind) ==
    [x \in 1..(data_size * (n - 1) + tail) |->
        LET i == (x - 1) \div data_size
        IN  BlockByte(IF i = k THEN kind ELSE "ascii", i, x - data_size * i)]

Sources ==
    {<<>>} \cup
    {SourceOf(n, t, k, kind) :
        n \in 1..MaxUnits, t \in TailLens, k \in 0..(MaxUnits - 1), kind \in BlockKinds}

\* base names of the source file: "a.bin" and "a b"
FileNames == {<<97, 46, 98, 105, 110>>, <<97, 32, 98>>}

NewEncoder(name, destructive) ==
    [pc |-> "new", file |-> name, destructive |-> destructive,
     pos |-> 0, pid |-> -1, packetToBuild |-> NoPacket,
     packets_built |-> 0, result |-> "none", exc |-> "none",
     \* bookkeeping for the properties: the source file as it was when run()
     \* began, which step failed ("open", "data", "meta"), and the frame of
     \* the last unit as it was before setLastPacket wrote it again
     original |-> NoFile, failure |-> "none", beforeMark |-> NoFile]

NoResult == [kind |-> "none", list |-> <<>>]

NewDecoder ==
    [pc |-> "new", file_name |-> None, expected_packets |-> -1, file_size |-> -1,
     pid |-> -1, scaffold_data |-> <<>>, missedPackets |-> <<>>,
     result |-> NoResult, exc |-> "none",
     asyncPid |-> -1, asyncResult |-> "none",
     \* bookkeeping for the properties: the pids in the store when run() began,
     \* the scaffold file as it was when asyncDecode was called, and the step
     \* of the bulk pass that was made to fail ("open")
     present |-> {}, before |-> NoFile, failure |-> "none"]

Init ==
    /\ InitPacketClass /\ InitPacket /\ InitVote
    /\ source \in Sources \cup {NoFile}
    /\ unit = [p \in 0..(MaxUnits - 1) |-> NoFile]
    /\ lost = [p \in 0..(MaxUnits - 1) |-> NoFile]
    /\ initUnit = NoFile
    /\ scaff = NoFile
    /\ final = NoFile
    /\ \E name \in FileNames, destructive \in BOOLEAN :
           enc = [NewEncoder(name, destructive) EXCEPT !.original = source]
    /\ dec = NewDecoder
    /\ InitWTCIdle

Exists(p) == p \in DOMAIN unit /\ unit[p] # NoFile

\* ---- Encoder

\* Encoder.encode, line 191: open the source file
EncOpen ==
    /\ enc.pc = "new"
    /\ IF source = NoFile
       THEN \* FileNotFoundError: encode() returns False, run() returns True
            enc' = [enc EXCEPT !.pc = "done", !.result = "True", !.failure = "open"]
       ELSE enc' = [enc EXCEPT !.pc = "encoding", !.pid = -1, !.pos = 0,
                               !.packetToBuild = NoPacket]
    /\ UNCHANGED <<last_id, overflow, pkt, vote, source, unit, lost, initUnit, scaff, final, dec, interp, sup>>

\* Encoder.encode, lines 197-200 and 205-206: a loop iteration that read data
EncData ==
    /\ enc.pc = "encoding"
    /\ LET pid  == enc.pid + 1
           data == Slice(source, enc.pos, enc.pos + data_size)
           r    == PacketInit(data, Wide(pid), 0, last_id, overflow)
       IN  /\ data # <<>>
           /\ last_id' = r.last_id
           /\ overflow' = r.overflow
           /\ IF r.status # "ok"
              THEN /\ enc' = [enc EXCEPT !.pc = "raised", !.exc = r.status, !.pid = pid,
                                         !.pos = enc.pos + Len(data)]
                   /\ unit' = unit
              ELSE IF BuildRaises(r.overflow)
              THEN \* the unit file is opened (created empty) before build() raises
                   /\ enc' = [enc EXCEPT !.pc = "raised", !.exc = "TypeError", !.pid = pid,
                                         !.pos = enc.pos + Len(data),
                                         !.packetToBuild = r.packet]
                   /\ unit' = [unit EXCEPT ![pid] = <<>>]
              ELSE /\ enc' = [enc EXCEPT !.pid = pid, !.pos = enc.pos + Len(data),
                                         !.packetToBuild = r.packet]
                   /\ unit' = [unit EXCEPT ![pid] = build(r.packet, r.overflow)]
    /\ UNCHANGED <<pkt, vote, source, lost, initUnit, scaff, final, dec, interp, sup>>

\* a setLastPacket that leaves the op code as it was
setLastPacketUnmarked(packet) == packet

\* Encoder.setLastPacket: mark the packet and write it again under its pid
setLastPacket(packet) == [packet EXCEPT !.op_code = 7]

\* Encoder.encode, lines 197-204 and 211-222: the iteration that read nothing;
\* in destructive mode the source file is removed (line 215)
EncLast ==
    /\ enc.pc = "encoding"
    /\ Slice(source, enc.pos, enc.pos + data_size) = <<>>
    /\ IF enc.packetToBuild = NoPacket
       THEN \* setLastPacket(None): AttributeError, caught nowhere
            /\ enc' = [enc EXCEPT !.pc = "raised", !.exc = "AttributeError",
                                  !.pid = enc.pid + 1]
            /\ UNCHANGED <<unit, source>>
       ELSE LET p == setLastPacket(enc.packetToBuild)
            IN  /\ unit' = [unit EXCEPT ![WInt(p.pid)] = build(p, overflow)]
                /\ enc' = [enc EXCEPT !.pc = "encoded", !.pid = enc.pid + 1,
                                      !.packetToBuild = p,
                                      !.packets_built = enc.pid + 1,
                                      !.beforeMark = unit[WInt(p.pid)]]
                /\ source' = IF enc.destructive THEN NoFile ELSE source
    /\ UNCHANGED <<last_id, overflow, pkt, vote, lost, initUnit, scaff, final, dec, interp, sup>>

\* Encoder.encode, lines 205-210 and 218-223: a unit file cannot be written
\* (OSError from open or write, in the loop or in setLastPacket); encode()
\* returns False and run() returns True
EncWriteFail ==
    /\ enc.pc = "encoding"
    /\ LET pid  == enc.pid + 1
           data == Slice(source, enc.pos, enc.pos + data_size)
           r    == PacketInit(data, Wide(pid), 0, last_id, overflow)
       IN  IF data # <<>>
           THEN /\ r.status = "ok"
                /\ last_id' = r.last_id
                /\ overflow' = r.overflow
                /\ enc' = [enc EXCEPT !.pc = "done", !.result = "True", !.failure = "data",
                                      !.pid = pid, !.pos = enc.pos + Len(data),
                                      !.packetToBuild = r.packet]
           ELSE /\ enc.packetToBuild # NoPacket
                /\ enc' = [enc EXCEPT !.pc = "done", !.result = "True", !.failure = "data",
                                      !.pid = pid,
                                      !.packetToBuild = setLastPacket(enc.packetToBuild)]
                /\ UNCHANGED <<last_id, overflow>>
    /\ UNCHANGED <<pkt, vote, source, unit, lost, initUnit, scaff, final, dec, interp, sup>>

\* the text payload of the init packet (lines 228-232)
InitInfo(name, packets_built, size) == join(<<name, str(packets_built), str(size)>>)

\* run() builds the init packet although encode() is still in its loop
EncodeReturnedEarly(e) == e.pc \in {"encoding", "encoded"}

\* Encoder.run, line 179: encode() returned True
EncodeReturnedTrue(e) == e.pc = "encoded"

\* Encoder.run, lines 183-186: the Warning of buildInitPacket is caught; in
\* destructive mode os.remove(self.packets+"*.qp") names no file and raises
\* FileNotFoundError, otherwise run() returns False
RunWarned(e) ==
    IF e.destructive
    THEN [e EXCEPT !.pc = "raised", !.exc = "FileNotFoundError", !.failure = "meta"]
    ELSE [e EXCEPT !.pc = "done", !.result = "False", !.failure = "meta"]

\* Encoder.buildInitPacket, then run() returns True
EncInit ==
    /\ EncodeReturnedTrue(enc)
    /\ IF source = NoFile
       THEN \* init.qp is opened (created empty), then os.path.getsize raises
            \* FileNotFoundError, an OSError: Warning
            /\ initUnit' = <<>>
            /\ enc' = RunWarned(enc)
            /\ UNCHANGED <<last_id, overflow>>
       ELSE LET data == StrToBytes(InitInfo(enc.file, enc.packets_built, Len(source)))
                r    == PacketInit(data, Wide(0), 1, last_id, overflow)
            IN  /\ last_id' = r.last_id
                /\ overflow' = r.overflow
                /\ IF r.status # "ok"
                   THEN \* ValueError (payload too long): init.qp stays empty
                        /\ initUnit' = <<>>
                        /\ enc' = [enc EXCEPT !.pc = "raised", !.exc = r.status]
                   ELSE /\ initUnit' = build(r.packet, r.overflow)
                        /\ enc' = [enc EXCEPT !.pc = "done", !.result = "True"]
    /\ UNCHANGED <<pkt, vote, source, unit, lost, scaff, final, dec, interp, sup>>

\* Encoder.buildInitPacket, lines 229 and 235-237: init.qp cannot be opened
\* for writing (OSError): Warning
EncInitFail ==
    /\ EncodeReturnedTrue(enc)
    /\ enc' = RunWarned(enc)
    /\ UNCHANGED <<last_id, overflow, pkt, vote, source, unit, lost, initUnit, scaff, final, dec, interp, sup>>

EncoderStopped == enc.pc \in {"done", "raised"}

\* ---- the link between the two unit stores

\* unit p does not reach the Decoder's store
Lose(p) ==
    /\ EncoderStopped /\ dec.pc = "new"
    /\ Exists(p)
    /\ lost' = [lost EXCEPT ![p] = unit[p]]
    /\ unit' = [unit EXCEPT ![p] = NoFile]
    /\ UNCHANGED <<last_id, overflow, pkt, vote, source, initUnit, scaff, final, enc, dec, interp, sup>>

\* unit p reaches the Decoder's store after the bulk pass
Arrive(p) ==
    /\ dec.pc \in {"bulkdone", "fresh", "sleeping"} /\ dec.asyncPid = -1
    /\ lost[p] # NoFile
    /\ unit' = [unit EXCEPT ![p] = lost[p]]
    /\ lost' = [lost EXCEPT ![p] = NoFile]
    /\ UNCHANGED <<last_id, overflow, pkt, vote, source, initUnit, scaff, final, enc, dec, interp, sup>>

\* ---- Decoder

\* Decoder.readInit: the fields of the init packet's text, or the exception
readInit ==
    IF initUnit = NoFile THEN [exc |-> "OSError", information |-> <<>>]
    ELSE LET d == decode(PayloadOf(initUnit))
         IN  IF ~d.ok THEN [exc |-> "UnicodeDecodeError", information |-> <<>>]
             ELSE [exc |-> "none", information |-> split(d.s)]

\* Decoder.init on decoder object d: the object afterwards and the exception
init(d) ==
    LET r  == readInit
        i  == r.information
        d1 == IF d.file_name = None THEN [d EXCEPT !.file_name = i[1]] ELSE d
    IN  IF r.exc # "none" THEN [exc |-> r.exc, dec |-> d]
        ELSE IF Len(i) < 2 THEN [exc |-> "IndexError", dec |-> d1]
        ELSE IF ~IsDigits(i[2]) THEN [exc |-> "ValueError", dec |-> d1]
        ELSE LET d2 == [d1 EXCEPT !.expected_packets = int(i[2])]
             IN  IF Len(i) < 3 THEN [exc |-> "IndexError", dec |-> d2]
                 ELSE IF ~IsDigits(i[3]) THEN [exc |-> "ValueError", dec |-> d2]
                 ELSE [exc |-> "none", dec |-> [d2 EXCEPT !.file_size = int(i[3])]]

\* Decoder.run, line 282
DecInit ==
    /\ EncoderStopped /\ dec.pc = "new"
    /\ LET r == init(dec)
           present == {p \in DOMAIN unit : Exists(p)}
       IN  dec' = IF r.exc # "none"
                  THEN [r.dec EXCEPT !.pc = "raised", !.exc = r.exc, !.present = present]
                  ELSE [r.dec EXCEPT !.pc = "inited", !.present = present]
    /\ UNCHANGED <<last_id, overflow, pkt, vote, source, unit, lost, initUnit, scaff, final, enc, interp, sup>>

\* Decoder.prepareFileLocation (run, line 283)
prepareFileLocation ==
    /\ dec.pc = "inited"
    /\ scaff' = Fill(32, dec.file_size)
    /\ dec' = [dec EXCEPT !.pc = "prepared"]
    /\ UNCHANGED <<last_id, overflow, pkt, vote, source, unit, lost, initUnit, final, enc, interp, sup>>

\* Decoder.bulkDecode, lines 319-329: remove an old final file, open the scaffold
BulkOpen ==
    /\ dec.pc = "prepared"
    /\ final' = NoFile
    /\ IF scaff = NoFile
       THEN \* OSError caught at line 363: the function ends without a return value
            dec' = [dec EXCEPT !.pc = "bulkdone", !.missedPackets = <<>>,
                               !.result = [kind |-> "None", list |-> <<>>]]
       ELSE dec' = [dec EXCEPT !.pc = "bulk", !.pid = -1, !.scaffold_data = <<>>,
                               !.missedPackets = <<>>]
    /\ UNCHANGED <<last_id, overflow, pkt, vote, source, unit, lost, initUnit, scaff, enc, interp, sup>>

\* Decoder.bulkDecode, lines 327 and 363-364: the scaffold file cannot be
\* opened (an OSError other than a missing file); the handler prints and the
\* function ends without a return value
BulkOpenFail ==
    /\ dec.pc = "prepared"
    /\ final' = NoFile
    /\ dec' = [dec EXCEPT !.pc = "bulkdone", !.missedPackets = <<>>,
                          !.result = [kind |-> "None", list |-> <<>>],
                          !.failure = "open"]
    /\ UNCHANGED <<last_id, overflow, pkt, vote, source, unit, lost, initUnit, scaff, enc, interp, sup>>

\* Decoder.ammendScaffoldData: cut the text into pieces of data_size characters,
\* replace piece pid, or append when there is no such piece
ammendScaffoldData(scaffold_data, to_write, pid) ==
    LET n      == Len(scaffold_data)
        chunks == (n + data_size - 1) \div data_size
    IN  IF pid < chunks
        THEN SubSeq(scaffold_data, 1, data_size * pid) \o to_write
                \o SubSeq(scaffold_data, data_size * (pid + 1) + 1, n)
        ELSE scaffold_data \o to_write

\* 'ÿ' * Packet.data_size
Placeholder == Fill(255, data_size)

\* a flush that leaves the file as it finds it
OverlayKeep(old, written) == old
\* what a file opened 'rb+' holds after written was written at offset 0
Overlay(old, written) == written \o SubSeq(old, Len(written) + 1, Len(old))

\* bulkDecode, lines 332-342: unit pid exists and is decoded into the scaffold text
BulkRead ==
    /\ dec.pc = "bulk"
    /\ Exists(dec.pid + 1)
    /\ LET pid == dec.pid + 1
           d   == decode(PayloadOf(unit[pid]))
       IN  dec' = IF ~d.ok
                  THEN [dec EXCEPT !.pc = "raised", !.exc = "UnicodeDecodeError", !.pid = pid]
                  ELSE [dec EXCEPT !.pid = pid,
                            !.scaffold_data = ammendScaffoldData(dec.scaffold_data, d.s, pid)]
    /\ UNCHANGED <<last_id, overflow, pkt, vote, source, unit, lost, initUnit, scaff, final, enc, interp, sup>>

\* bulkDecode, lines 344-351: unit pid is absent and unit pid+1 exists
BulkMiss ==
    /\ dec.pc = "bulk"
    /\ ~Exists(dec.pid + 1) /\ Exists(dec.pid + 2)
    /\ LET pid == dec.pid + 1
       IN  dec' = [dec EXCEPT !.pid = pid,
                       !.missedPackets = Append(dec.missedPackets, pid),
                       !.scaffold_data = ammendScaffoldData(dec.scaffold_data, Placeholder, pid)]
    /\ UNCHANGED <<last_id, overflow, pkt, vote, source, unit, lost, initUnit, scaff, final, enc, interp, sup>>

\* bulkDecode, lines 352-360: unit pid and unit pid+1 are absent; the scaffold
\* text is written to the scaffold file and the loop ends
BulkFlush ==
    /\ dec.pc = "bulk"
    /\ ~Exists(dec.pid + 1) /\ ~Exists(dec.pid + 2)
    /\ scaff' = Overlay(scaff, encode(dec.scaffold_data))
    /\ dec' = [dec EXCEPT !.pc = "flushed", !.pid = dec.pid + 1]
    /\ UNCHANGED <<last_id, overflow, pkt, vote, source, unit, lost, initUnit, final, enc, interp, sup>>

\* bulkDecode, lines 365-372 (with buildScaffold): report the missed pids, or
\* rename the scaffold to the final file and return None
BulkReturn ==
    /\ dec.pc = "flushed"
    /\ IF dec.missedPackets # <<>>
       THEN /\ dec' = [dec EXCEPT !.pc = "bulkdone",
                           !.result = [kind |-> "list", list |-> dec.missedPackets]]
            /\ UNCHANGED <<scaff, final>>
       ELSE /\ dec' = [dec EXCEPT !.pc = "bulkdone",
                           !.result = [kind |-> "None", list |-> <<>>]]
            /\ final' = scaff
            /\ scaff' = NoFile
    /\ UNCHANGED <<last_id, overflow, pkt, vote, source, unit, lost, initUnit, enc, interp, sup>>

\* Decoder.__init__ once more: another Decoder object for the same packet
\* store and output directory, made after a bulk pass left its scaffold
DecoderAgain ==
    /\ dec.pc = "bulkdone" /\ dec.asyncPid = -1
    /\ dec.result.kind = "list"
    /\ dec' = [NewDecoder EXCEPT !.pc = "fresh", !.present = dec.present]
    /\ UNCHANGED <<last_id, overflow, pkt, vote, source, unit, lost, initUnit, scaff, final, enc, interp, sup>>

\* asyncDecode, lines 426-427 and 440, were FileNotFoundError not caught
NotFoundRaised(called) == [called EXCEPT !.asyncResult = "FileNotFoundError"]
\* asyncDecode, lines 426-427 and 440: FileNotFoundError is caught and
\* printed, and the call returns False
NotFound(called) == [called EXCEPT !.asyncResult = "False"]

\* Decoder.asyncDecode(pid), called after a bulk pass on the decoder that ran
\* it or on a fresh one
asyncDecode(pid) ==
    /\ dec.pc \in {"bulkdone", "fresh", "sleeping", "bulk"} /\ dec.asyncPid = -1
    /\ LET called == [dec EXCEPT !.asyncPid = pid, !.before = scaff]
       IN  IF dec.file_name = None
           THEN \* Warning: init() is run in the handler and the call returns
                \* False; an exception of init() leaves the call
                LET r == init(dec)
                IN  /\ dec' = [r.dec EXCEPT !.asyncPid = pid, !.before = scaff,
                                   !.asyncResult = IF r.exc = "none" THEN "False"
                                                   ELSE r.exc]
                    /\ scaff' = scaff
           ELSE IF ~Exists(pid) \/ scaff = NoFile
           THEN \* FileNotFoundError for the unit or for the scaffold
                /\ dec' = NotFound(called)
                /\ scaff' = scaff
           ELSE LET old  == decode(scaff)
                    info == decode(PayloadOf(unit[pid]))
                IN  IF ~old.ok \/ ~info.ok
                    THEN /\ dec' = [called EXCEPT !.asyncResult = "UnicodeDecodeError"]
                         /\ scaff' = scaff
                    ELSE /\ scaff' = encode(ammendScaffoldData(old.s, info.s, pid))
                         /\ dec' = [called EXCEPT !.asyncResult = "True"]
    /\ UNCHANGED <<last_id, overflow, pkt, vote, source, unit, lost, initUnit, final, enc, interp, sup>>

\* the pid Decoder.run passes to asyncDecode, line 290: self.asyncDecode(1)
RunAsyncPid == 1

\* asyncDecode(pid) called by the user of a Decoder with any pid, or by
\* Decoder.run (line 290) after its sleep with RunAsyncPid
CallerAsync(pid) ==
    /\ \/ dec.pc \in {"bulkdone", "fresh"}
       \/ dec.pc = "sleeping" /\ pid = RunAsyncPid
    /\ asyncDecode(pid)

\* Decoder.run, lines 287-289: bulkDecode returned a list; run() prints and
\* sleeps ten seconds, during which units may arrive
DecRunSleep ==
    /\ dec.pc = "bulkdone" /\ dec.asyncPid = -1
    /\ dec.result.kind = "list"
    /\ dec' = [dec EXCEPT !.pc = "sleeping"]
    /\ UNCHANGED <<last_id, overflow, pkt, vote, source, unit, lost, initUnit, scaff, final, enc, interp, sup>>

Next ==
    \/ EncOpen
    \/ EncData
    \/ EncLast
    \/ EncWriteFail
    \/ EncInit
    \/ EncInitFail
    \/ \E p \in 0..(MaxUnits - 1) : Lose(p)
    \/ DecInit
    \/ prepareFileLocation
    \/ BulkOpen
    \/ BulkOpenFail
    \/ BulkRead
    \/ BulkMiss
    \/ BulkFlush
    \/ BulkReturn
    \/ \E p \in 0..(MaxUnits - 1) : Arrive(p)
    \/ DecoderAgain
    \/ \E p \in 0..(MaxUnits - 1) : CallerAsync(p)
    \/ DecRunSleep

Spec == Init /\ [][Next]_vars

-----------------------------------------------------------------------------
(* Properties of the codec specification                                   *)

\* ceil(L / 77)
UnitsFor(L) == (L + data_size - 1) \div data_size

NothingLost == \A p \in DOMAIN lost : lost[p] = NoFile

\* the decode run began with every unit of the source in the store
StoreComplete == dec.present = 0..(UnitsFor(Len(enc.original)) - 1)

\* Encoder.run was given a source file and no write of it was made to fail
EncoderUndisturbed == enc.original # NoFile /\ enc.failure = "none"

\* the bulk pass of Decoder.run has ended (returned or raised) with no step of
\* it made to fail, and asyncDecode has not been called
BulkEnded ==
    /\ dec.asyncPid = -1 /\ dec.failure = "none"
    /\ dec.pc = "bulkdone" \/ (dec.pc = "raised" /\ dec.pid # -1)
BulkReturned == dec.pc = "bulkdone" /\ dec.asyncPid = -1 /\ dec.failure = "none"

\* C2: for every source of length L > 0 (any byte values), Encoder.run followed
\* by Decoder.run over the complete, unmodified unit store ends with a final
\* file equal to the source, the bulk pass returning None and no .scaff file.
C2_EncodeDecode ==
    (EncoderUndisturbed /\ enc.original # <<>> /\ StoreComplete /\ BulkEnded)
    => /\ dec.pc = "bulkdone"
       /\ dec.result.kind = "None"
       /\ final = enc.original
       /\ scaff = NoFile

\* C3: the final file exists only if every data unit with pid
\* 0..expectedPacketCount-1 was present in the store of the decode run.
C3_PromotionSafety ==
    final # NoFile => \A p \in 0..(dec.expected_packets - 1) : p \in dec.present

\* pids absent from the store while a unit with a greater pid is present
Gaps(present) == {p \in 0..(MaxUnits - 1) : p \notin present /\ \E q \in present : q > p}

Range(l) == {l[i] : i \in 1..Len(l)}
Increasing(l) == \A i \in 1..(Len(l) - 1) : l[i] < l[i + 1]

\* C5: for every subset of data units present, the list the bulk pass returns is
\* exactly the absent pids below some present pid (gaps of any length), in
\* increasing order (None standing for the empty list).
C5_LedgerExact ==
    BulkReturned
    => /\ Range(dec.result.list) = Gaps(dec.present)
       /\ Increasing(dec.result.list)

\* C7: for every source of length L >= 0 Encoder.run ends without an uncaught
\* exception, leaving exactly the data units 0 .. ceil(L/77)-1 with pids equal
\* to their names, the metadata unit init.qp, and packets_built = ceil(L/77).
C7_UnitCount ==
    (EncoderStopped /\ EncoderUndisturbed /\ NothingLost /\ dec.pc = "new")
    => /\ enc.pc = "done"
       /\ \A p \in DOMAIN unit : Exists(p) <=> p < UnitsFor(Len(enc.original))
       /\ \A p \in DOMAIN unit : Exists(p) => HeaderOf(unit[p]).pid = Wide(p)
       /\ initUnit # NoFile
       /\ enc.packets_built = UnitsFor(Len(enc.original))

\* bytes a placeholder slot may hold: 0xFF, or the bytes of the UTF-8 form of U+00FF
FillBytes == {255, 195, 191}

\* C8: after a bulk pass that recorded pid p missing, the .scaff file has exactly
\* fileSizeBytes bytes, the 77-byte slot of p holds placeholder fill, and every
\* decoded unit q has its payload at offset 77*q.
C8_ScaffoldPositions ==
    (BulkReturned /\ dec.result.kind = "list")
    => /\ scaff # NoFile
       /\ Len(scaff) = dec.file_size
       /\ \A p \in Range(dec.result.list) :
             \A x \in (data_size * p + 1)..Min(data_size * (p + 1), Len(scaff)) :
                 scaff[x] \in FillBytes
       /\ \A q \in dec.present :
             q < dec.pid =>
                 LET payload == PayloadOf(unit[q])
                 IN  Slice(scaff, data_size * q, data_size * q + Len(payload)) = payload

\* C9: after a bulk pass that recorded exactly pid p missing, asyncDecode(p) with
\* unit p now in the store returns True, puts unit p's payload into slot p,
\* leaves the bytes of the other slots as they were, and the scaffold then
\* equals the original source.
C9_AsyncFrame ==
    (/\ dec.pc = "bulkdone"
     /\ dec.asyncPid # -1
     /\ dec.result.kind = "list"
     /\ dec.result.list = <<dec.asyncPid>>
     /\ EncoderUndisturbed
     /\ dec.present = (0..(UnitsFor(Len(enc.original)) - 1)) \ {dec.asyncPid}
     /\ NothingLost
     /\ Exists(dec.asyncPid))
    => /\ dec.asyncResult = "True"
       /\ scaff # NoFile
       /\ scaff = enc.original
       /\ Slice(scaff, 0, data_size * dec.asyncPid)
             = Slice(dec.before, 0, data_size * dec.asyncPid)

\* C10: when units 0..N are all present and no unit N+1 exists, the bulk pass
\* ends at the first absent pid without recording it, flushes the scaffold,
\* renames the .scaff file to the final file and returns None.
C10_EndOfStream ==
    (/\ BulkEnded
     /\ dec.present # {}
     /\ \A p \in dec.present : \A q \in 0..p : q \in dec.present)
    => /\ dec.pc = "bulkdone"
       /\ dec.result.kind = "None"
       /\ dec.missedPackets = <<>>
       /\ dec.pid = Cardinality(dec.present)
       /\ scaff = NoFile
       /\ final # NoFile
       /\ Slice(final, 0, Len(encode(dec.scaffold_data))) = encode(dec.scaffold_data)

\* C11: for every source file with base name n and size L, the init.qp that
\* Encoder.run wrote is read back by Decoder.init as file name n,
\* expected_packets = ceil(L/77) and file_size = L.
C11_MetadataRoundTrip ==
    (enc.pc = "done" /\ initUnit # NoFile)
    => LET r == init(NewDecoder)
       IN  /\ r.exc = "none"
           /\ r.dec.file_name = enc.file
           /\ r.dec.expected_packets = UnitsFor(Len(enc.original))
           /\ r.dec.file_size = Len(enc.original)

\* C12: in destructive mode the source file is deleted only after every data
\* unit and init.qp have been written: once the run has deleted the source,
\* init.qp exists and records the true size, and Encoder.run returns True.
C12_DestructiveOrdering ==
    (enc.destructive /\ enc.original # NoFile /\ source = NoFile)
    => /\ initUnit # NoFile
       /\ init(NewDecoder).dec.file_size = Len(enc.original)
       /\ enc.pc = "done" => enc.result = "True"
       /\ enc.pc # "raised"

\* the data units and init.qp of the source are all in the store
AllPersisted ==
    /\ enc.original # NoFile
    /\ \A p \in 0..(UnitsFor(Len(enc.original)) - 1) : Exists(p)
    /\ initUnit # NoFile /\ initUnit # <<>>

\* C13: Encoder.run returns True only if all data units and init.qp were
\* written, and returns False when the source cannot be opened, when a data
\* unit cannot be written or when init.qp cannot be written.
C13_RunResult ==
    (EncoderStopped /\ NothingLost /\ dec.pc = "new")
    => /\ enc.result = "True" => AllPersisted
       /\ enc.failure # "none" => enc.result = "False"

\* C14: when a data unit or init.qp cannot be written, the run ends without an
\* uncaught exception; in destructive mode no data unit of the run is left in
\* the store, otherwise the units already written are left.
C14_DestructiveDiscard ==
    (EncoderStopped /\ enc.failure \in {"data", "meta"} /\ NothingLost /\ dec.pc = "new")
    => /\ enc.pc = "done"
       /\ enc.destructive => \A p \in DOMAIN unit : ~Exists(p)
       /\ ~enc.destructive =>
              \A p \in DOMAIN unit : p < Min(enc.pid, UnitsFor(Len(enc.original))) => Exists(p)

\* C15: after encode() succeeded on a non-empty source with N data units, unit
\* N-1 and only it carries op code 7, the others op code 0, and the unit
\* written again by setLastPacket has the pid and the payload field of the
\* frame it replaced.
C15_TerminalPacket ==
    (enc.packets_built > 0 /\ NothingLost /\ dec.pc = "new")
    => LET N == enc.packets_built
       IN  /\ \A p \in 0..(N - 1) :
                 /\ Exists(p)
                 /\ HeaderOf(unit[p]).op_code = IF p = N - 1 THEN 7 ELSE 0
           /\ HeaderOf(unit[N - 1]).pid = HeaderOf(enc.beforeMark).pid
           /\ HeaderOf(enc.beforeMark).pid = Wide(N - 1)
           /\ Slice(unit[N - 1], 19, max_size) = Slice(enc.beforeMark, 19, max_size)
           /\ Slice(unit[N - 1], 19, 19 + 3 * Len(enc.packetToBuild.data))
                  = Repeat(Slice(enc.original, data_size * (N - 1), data_size * N), 3)

C15_Witness ==
    /\ enc.packets_built = MaxUnits /\ NothingLost /\ dec.pc = "new"
    /\ HeaderOf(unit[MaxUnits - 1]).op_code = 7
    /\ HeaderOf(enc.beforeMark).op_code = 0

\* C16: init.qp is written only by a run whose encode() completed, after the
\* last write of a data unit: a store with a run's init.qp holds the run's
\* data units 0..packets_built-1, and no data unit is written once init.qp is.
C16_MetadataLast ==
    [][/\ initUnit' # initUnit =>
            /\ enc.pc = "encoded"
            /\ enc.packets_built > 0
            /\ \A p \in 0..(enc.packets_built - 1) : Exists(p)
            /\ unit' = unit
       /\ (initUnit # NoFile /\ enc' # enc) => unit' = unit]_vars

C16_Witness ==
    /\ initUnit # NoFile /\ initUnit # <<>>
    /\ enc.packets_built = MaxUnits
    /\ \A p \in 0..(MaxUnits - 1) : Exists(p)

\* C19: bulkDecode returns None only if the scaffold was flushed and renamed
\* to the final file; when the scaffold file cannot be opened it does not
\* return None (and Decoder.run, which prints "complete" exactly when the
\* value is None, does not report completion).
C19_BulkResult ==
    (dec.pc = "bulkdone" /\ dec.asyncPid = -1)
    => /\ dec.result.kind = "None" => (final # NoFile /\ scaff = NoFile)
       /\ dec.failure = "open" => dec.result.kind # "None"

\* C20: asyncDecode(pid) on a decoder whose file_name is None reads init.qp and
\* then, in the same call, puts unit pid into its slot of the scaffold and
\* returns True when the unit and the scaffold exist.
C20_AsyncUninitialized ==
    (dec.pc = "fresh" /\ dec.asyncPid # -1 /\ Exists(dec.asyncPid) /\ scaff # NoFile)
    => /\ dec.file_name # None
       /\ dec.asyncResult = "True"
       /\ LET payload == PayloadOf(unit[dec.asyncPid])
          IN  Slice(scaff, data_size * dec.asyncPid,
                    data_size * dec.asyncPid + Len(payload)) = payload

\* C21: when the bulk pass returned a non-empty list M, the asynchronous pass
\* of Decoder.run is invoked for the pids in M and for no other pid.
C21_RunConsumesLedger ==
    (dec.pc = "sleeping" /\ dec.asyncPid # -1)
    => {dec.asyncPid} = Range(dec.result.list)

\* The fields of a Decoder object (lines 269-275 and the bulk pass's state)
Fields(d) ==
    <<d.file_name, d.expected_packets, d.file_size, d.pid, d.scaffold_data,
      d.missedPackets>>

\* A step that is a call asyncDecode(pid) for a pid whose unit is absent
AsyncOfAbsentUnit ==
    /\ dec.asyncPid = -1 /\ dec'.asyncPid # -1
    /\ ~Exists(dec'.asyncPid)

\* What C22 promises of such a call
AsyncLeftAllAlone ==
    /\ dec'.asyncResult = "False"
    /\ scaff' = scaff /\ final' = final
    /\ Fields(dec') = Fields(dec)

\* C22 as stated: asyncDecode(pid) with unit pid absent returns False without
\* raising and leaves the scaffold, the final file and the decoder's fields
\* unchanged, on every decoder.
C22_AsyncNotFound_Original == [][AsyncOfAbsentUnit => AsyncLeftAllAlone]_vars

\* C22: asyncDecode(pid) with unit pid absent, on a decoder whose metadata has
\* been read (file_name is set), returns False without raising and leaves the
\* scaffold, the final file and the decoder's fields unchanged.
C22_AsyncNotFound ==
    [][(AsyncOfAbsentUnit /\ dec.file_name # None) => AsyncLeftAllAlone]_vars

C22_Witness ==
    /\ dec.pc \in {"bulkdone", "sleeping"}
    /\ dec.asyncPid # -1 /\ ~Exists(dec.asyncPid)
    /\ dec.asyncResult = "False"
    /\ scaff # NoFile /\ scaff = dec.before

\* C24: a packet constructed with a pid that has wrapped past max_id carries
\* the pid modulo max_id, and the overflow flag (bit 7 of the flags byte) of
\* that and of every later packet is 1; before any wraparound the flag is 0;
\* build() succeeds in both cases.  Stated under SpecPacket, where
\* Packet.overflow starts at 0, so a value other than 0 means a wraparound
\* has happened.
C24_PidWraparound ==
    (pkt.status = "ok")
    => LET wrapped == WLess(max_id, pkt.pidArg) \/ pkt.prevOverflow # IntZero
       IN  /\ pkt.built = "ok"
           /\ (pkt.op_code \in {0, 7} /\ WLess(max_id, pkt.pidArg))
                  => HeaderOf(pkt.frame).pid = WMod(pkt.pidArg, max_id)
           /\ pkt.frame[9] \div 128 = (IF wrapped THEN 1 ELSE 0)

-----------------------------------------------------------------------------
(* Two passes on one in-progress file: a second caller runs asyncDecode on  *)
(* the decoder while its bulk pass is between opening the scaffold (line    *)
(* 327) and the flush (line 355).  No lock or flag in Decoder excludes it.  *)

\* unit p reaches the Decoder's store while the bulk pass is in its loop
ArriveMid(p) ==
    /\ dec.pc = "bulk" /\ dec.asyncPid = -1
    /\ lost[p] # NoFile
    /\ unit' = [unit EXCEPT ![p] = lost[p]]
    /\ lost' = [lost EXCEPT ![p] = NoFile]
    /\ UNCHANGED <<last_id, overflow, pkt, vote, source, initUnit, scaff, final, enc, dec, interp, sup>>

\* asyncDecode(pid) run by another caller between two iterations of the
\* bulk pass's loop
AsyncMid(pid) ==
    /\ dec.pc = "bulk"
    /\ asyncDecode(pid)

NextRace ==
    \/ EncOpen
    \/ EncData
    \/ EncLast
    \/ EncInit
    \/ \E p \in 0..(MaxUnits - 1) : Lose(p)
    \/ DecInit
    \/ prepareFileLocation
    \/ BulkOpen
    \/ BulkRead
    \/ BulkMiss
    \/ BulkFlush
    \/ BulkReturn
    \/ \E p \in 0..(MaxUnits - 1) : ArriveMid(p)
    \/ \E p \in 0..(MaxUnits - 1) : AsyncMid(p)

\* sources of at least two units (a unit is recorded missing only when a
\* later one exists) whose blocks are text, encoded non-destructively
RaceSources ==
    {SourceOf(n, t, k, kind) :
        n \in 2..MaxUnits, t \in TailLens, k \in 0..(MaxUnits - 1),
        kind \in {"ascii", "utf8"}}

InitRace ==
    /\ Init
    /\ source \in RaceSources
    /\ ~enc.destructive

SpecRace == InitRace /\ [][NextRace]_vars

\* the bytes of slot p of the scaffold file
SlotOf(f, p) == Slice(f, data_size * p, data_size * (p + 1))

\* C23: the bulk pass and an asynchronous pass on the same scaffold are not
\* mutually excluded: whenever asyncDecode(p) returned True between the bulk
\* pass's opening of the scaffold and its flush, for a pid p the bulk pass had
\* recorded missing, the flush overwrites it: slot p then does not hold unit
\* p's payload.  C23_Witness is that interleaving.
C23_LostUpdate ==
    (/\ dec.pc \in {"flushed", "bulkdone"}
     /\ dec.asyncResult = "True"
     /\ dec.asyncPid \in Range(dec.missedPackets))
    => SlotOf(scaff, dec.asyncPid) # PayloadOf(unit[dec.asyncPid])

C23_Witness ==
    /\ dec.pc = "bulkdone"
    /\ dec.asyncResult = "True"
    /\ dec.result.kind = "list"
    /\ dec.asyncPid \in Range(dec.result.list)
    /\ Exists(dec.asyncPid)
    /\ scaff # NoFile
    /\ SlotOf(scaff, dec.asyncPid) # PayloadOf(unit[dec.asyncPid])

-----------------------------------------------------------------------------
(* qpaceInterpreter.run (the receive loop) and qpaceWTCHandler.run (the     *)
(* supervisor of the worker threads).  The chip registers, the interrupt    *)
(* line and SIGINT are inputs; the buffer is kept by its length.            *)

\* most bytes the buffer collects
MaxBuf == 3

\* values of the line status register: bit 0 data in the RHR, bit 7 FIFO data error
LSRValues == {0, 1, 128, 129}

\* bytes waiting in the receive FIFO (REG_RXLVL)
RXLevels == 0..2

\* a & b on naturals
RECURSIVE BitAnd(_, _)
BitAnd(a, b) ==
    IF a = 0 \/ b = 0 THEN 0
    ELSE (a % 2) * (b % 2) + 2 * BitAnd(a \div 2, b \div 2)

\* line 158: status & 0x01 == 1, that is (status & 0x01) == 1
DataAvailable(status) == BitAnd(status, 1) = 1

\* line 166: status & 0x80 == 1, that is (status & 0x80) == 1
FifoError(status) == BitAnd(status, 128) = 1

\* run() up to line 153: the loop is about to be entered with an empty buffer
NewWorker(thread) == [NoWorker EXCEPT !.pc = "polling", !.thread = thread]

\* qpaceInterpreter.run(chip) called directly, lines 143-152
RunDirect ==
    /\ interp.pc = "none" /\ sup.pc = "none"
    /\ interp' = NewWorker(FALSE)
    /\ UNCHANGED <<codecVars, sup>>

\* lines 153-156: the head of an iteration: time.sleep(1); attempt = 0
InterpSleep ==
    /\ interp.pc = "polling"
    /\ interp' = [interp EXCEPT !.pc = "reading", !.attempt = 0,
                                !.began = sup.shutdown]
    /\ UNCHANGED <<codecVars, sup>>

\* lines 157-173 and 177-178: read the status register and act on it
InterpRead(status, waiting, irq) ==
    /\ interp.pc = "reading"
    /\ interp.buf + waiting <= MaxBuf
    /\ LET seen == [interp EXCEPT
                       !.last = [status |-> status, irq |-> irq],
                       !.errPolls = IF BitAnd(status, 128) # 0 /\ ~DataAvailable(status)
                                    THEN Min(interp.errPolls + 1, 2) ELSE 0]
       IN  interp' =
             IF DataAvailable(status)
             THEN [seen EXCEPT !.pc = "polling", !.buf = interp.buf + waiting]
             ELSE IF FifoError(status)
             THEN \* attempt += 1; over 1 a BufferError is built and dropped
                  [seen EXCEPT !.pc = "polling", !.attempt = interp.attempt + 1]
             ELSE IF irq = "low"
             THEN \* InterruptedError, caught at line 177: break
                  [seen EXCEPT !.pc = "processing", !.cause = "InterruptedError"]
             ELSE [seen EXCEPT !.pc = "polling"]
    /\ UNCHANGED <<codecVars, sup>>

\* lines 175-176: SIGINT reaches the loop (run() called on the main thread)
InterpKeyboardInterrupt ==
    /\ interp.pc \in {"polling", "reading"} /\ ~interp.thread
    /\ interp' = [interp EXCEPT !.pc = "processing", !.cause = "KeyboardInterrupt"]
    /\ UNCHANGED <<codecVars, sup>>

\* lines 180-186: isCommand(buf): the module defines _isCommand, _processCommand
\* and _processQUIP only, so the call raises NameError, which the handler at
\* line 185 does not catch
InterpProcess ==
    /\ interp.pc = "processing"
    /\ interp' = [interp EXCEPT !.pc = "raised", !.exc = "NameError"]
    /\ UNCHANGED <<codecVars, sup>>

\* Thread.isAlive() of the interpreter thread
InterpreterAlive == interp.pc \in {"polling", "reading", "processing"} /\ interp.thread

\* qpaceWTCHandler.run, lines 99-115: the three events, the two Thread
\* objects, interpreter.start(); todoParser.start() is commented out
SupStart ==
    /\ sup.pc = "boot"
    /\ sup' = [sup EXCEPT !.pc = "loop", !.shutdown = FALSE, !.todoParserAlive = FALSE]
    /\ interp' = NewWorker(TRUE)
    /\ UNCHANGED codecVars

\* lines 117-119: time.sleep(.4)
SupSleep ==
    /\ sup.pc = "loop"
    /\ sup' = [sup EXCEPT !.pc = "check"]
    /\ UNCHANGED <<codecVars, interp>>

\* lines 120-130: with neither thread alive, leave the loop when the shutdown
\* flag is set, else make two new Thread objects and start the interpreter
SupCheck ==
    /\ sup.pc = "check"
    /\ IF ~(InterpreterAlive \/ sup.todoParserAlive)
       THEN IF sup.shutdown
            THEN /\ sup' = [sup EXCEPT !.pc = "left"]
                 /\ UNCHANGED interp
            ELSE /\ sup' = [sup EXCEPT !.pc = "loop", !.todoParserAlive = FALSE]
                 /\ interp' = NewWorker(TRUE)
       ELSE /\ sup' = [sup EXCEPT !.pc = "loop"]
            /\ UNCHANGED interp
    /\ UNCHANGED codecVars

\* lines 131-132: SIGINT reaches the supervisor's loop
SupKeyboardInterrupt ==
    /\ sup.pc \in {"loop", "check"}
    /\ sup' = [sup EXCEPT !.pc = "left"]
    /\ UNCHANGED <<codecVars, interp>>

\* lines 145-148: gpio.stop(); shutdownEvent.set()
SupShutdown ==
    /\ sup.pc = "left"
    /\ sup' = [sup EXCEPT !.pc = "joining", !.shutdown = TRUE]
    /\ UNCHANGED <<codecVars, interp>>

\* line 149: interpreter.join() returns once the thread has ended
SupJoin ==
    /\ sup.pc = "joining"
    /\ ~InterpreterAlive
    /\ sup' = [sup EXCEPT !.pc = "joined"]
    /\ UNCHANGED <<codecVars, interp>>

InterpStep ==
    \/ InterpSleep
    \/ \E status \in LSRValues, waiting \in RXLevels, irq \in {"low", "high"} :
           InterpRead(status, waiting, irq)
    \/ InterpProcess

SupStep ==
    \/ SupStart
    \/ SupSleep
    \/ SupCheck
    \/ SupShutdown
    \/ SupJoin

NextWTC ==
    \/ RunDirect
    \/ InterpSleep
    \/ \E status \in LSRValues, waiting \in RXLevels, irq \in {"low", "high"} :
           InterpRead(status, waiting, irq)
    \/ InterpKeyboardInterrupt
    \/ InterpProcess
    \/ SupStart
    \/ SupSleep
    \/ SupCheck
    \/ SupKeyboardInterrupt
    \/ SupShutdown
    \/ SupJoin

\* either run() of the interpreter is called by itself, or the supervisor boots
InitWTC ==
    /\ InitPacketClass /\ InitPacket /\ InitVote /\ InitFiles
    /\ enc = [pc |-> "none"] /\ dec = [pc |-> "none"]
    /\ interp = NoWorker
    /\ sup \in {NoSupervisor, [NoSupervisor EXCEPT !.pc = "boot"]}

\* the threads keep running: each takes its next step; which values the
\* registers and the interrupt line show, and whether SIGINT comes, is left open
SpecWTC == InitWTC /\ [][NextWTC]_vars /\ WF_vars(InterpStep) /\ WF_vars(SupStep)

\* the receive loop has ended
LoopEnded == interp.pc \in {"processing", "raised"}

C27_SupervisorRestart ==
    /\ (sup.pc \in {"loop", "check"} /\ ~sup.shutdown /\ ~InterpreterAlive)
          ~> (InterpreterAlive \/ sup.pc \notin {"loop", "check"})
    /\ (sup.pc \in {"loop", "check"} /\ ~sup.shutdown /\ ~sup.todoParserAlive)
          ~> (sup.todoParserAlive \/ sup.pc \notin {"loop", "check"})
    /\ [][(/\ sup.pc = "check" /\ sup.shutdown
           /\ ~InterpreterAlive /\ ~sup.todoParserAlive
           /\ sup'.pc # "check")
          => (sup'.pc = "left" /\ interp' = interp)]_vars

-----------------------------------------------------------------------------
(* The bulk pass as a loop that may not end: failures of the scaffold write *)
(* and of opening a unit, with the decoder taking its steps fairly.         *)

\* pids past the store all meet the same files (none), so the loop counter,
\* which Python lets grow without bound, is kept to PidCap - 1 and PidCap
\* once it has passed the store
PidCap == MaxUnits + 2
NextPid(pid) == IF pid < PidCap THEN pid + 1 ELSE PidCap - 1

\* bulkDecode, lines 352-357: unit pid and unit pid+1 are absent and writing
\* the scaffold raises OSError; the handler prints and the loop goes on
BulkFlushFail ==
    /\ dec.pc = "bulk"
    /\ ~Exists(dec.pid + 1) /\ ~Exists(dec.pid + 2)
    /\ dec' = [dec EXCEPT !.pid = NextPid(dec.pid), !.failure = "write"]
    /\ UNCHANGED <<last_id, overflow, pkt, vote, source, unit, lost, initUnit, scaff, final, enc, interp, sup>>

\* bulkDecode, lines 335 and 361-362: opening unit pid raises an OSError
\* other than FileNotFoundError; the handler prints and the loop goes on
BulkUnitFail ==
    /\ dec.pc = "bulk"
    /\ Exists(dec.pid + 1)
    /\ dec' = [dec EXCEPT !.pid = dec.pid + 1, !.failure = "unit"]
    /\ UNCHANGED <<last_id, overflow, pkt, vote, source, unit, lost, initUnit, scaff, final, enc, interp, sup>>

\* an iteration of the while loop of bulkDecode (lines 330-362) that does
\* not decode a unit; in every state of the loop one of them can be taken
BulkLoopStep ==
    \/ BulkMiss
    \/ BulkFlush
    \/ BulkFlushFail
    \/ BulkUnitFail

NextBulk ==
    \/ EncOpen
    \/ EncData
    \/ EncLast
    \/ EncInit
    \/ \E p \in 0..(MaxUnits - 1) : Lose(p)
    \/ DecInit
    \/ prepareFileLocation
    \/ BulkOpen
    \/ BulkRead
    \/ BulkMiss
    \/ BulkFlush
    \/ BulkFlushFail
    \/ BulkUnitFail
    \/ BulkReturn

\* the loop keeps running: while it can go round, it does, whichever outcome
\* the file system gives it
\* sources of 1..MaxUnits units of text, encoded non-destructively
InitBulk ==
    /\ Init
    /\ source \in {SourceOf(n, 1, 0, "ascii") : n \in 1..MaxUnits}
    /\ ~enc.destructive

SpecBulk == InitBulk /\ [][NextBulk]_vars /\ WF_vars(BulkLoopStep)

\* C28: for every finite unit store and every outcome of the unit reads and
\* of the scaffold flush (an OSError while writing the scaffold and an OSError
\* other than not-found while opening a unit included), bulkDecode eventually
\* stops its pid loop and returns (or is left by an exception).
C28_BulkTermination ==
    (dec.pc = "bulk") ~> (dec.pc \in {"flushed", "bulkdone", "raised"})

====
